---- MODULE Spec2Model ----
(***************************************************************************)
(* Remote Patient Monitoring: two desktop front ends over one HTTP API.    *)
(*                                                                         *)
(*   app = "rpm"   the modular program  (main.py -> ui/main_window.py,     *)
(*                 class RPMApp, api/patient_data.py, config.py)           *)
(*   app = "mono"  the single-file program (RemotePatientMonitoringApp.py) *)
(*                                                                         *)
(* Both run on one Qt control thread.  A handler runs to completion except *)
(* at two kinds of places, which are the only places where the model cuts  *)
(* a handler into steps:                                                   *)
(*   - a blocking HTTP call (requests.get / requests.post): nothing else   *)
(*     runs until the response step;                                       *)
(*   - a modal dialog (QMessageBox exec): a nested event loop runs until   *)
(*     the dialog is closed.  User input to the main window is blocked,    *)
(*     but the 30 s refresh QTimer still delivers timeout, so a fetch may  *)
(*     run nested inside the handler that opened the dialog.               *)
(* The handlers in progress form a call stack: the last frame is the one   *)
(* running.  Variables prefixed m_ belong to the single-file program.      *)
(*                                                                         *)
(* RPMApp uses a label patient_info that ui/components.py styles (line     *)
(* 143) but never creates; it is modelled as an ordinary label that starts *)
(* empty with the style of setup_data_view.  The status bar text and the   *)
(* "last updated" time are not modelled.                                   *)
(***************************************************************************)
EXTENDS Integers, Sequences, FiniteSets, TLC

\* ---------------------------------------------------------------- bounds
MaxLen   == 1      \* longest "measurements" list a response carries
MaxWideLen == 2    \* the same for the well-formed responses of SpecWide
MaxDepth == 2      \* deepest nesting of handlers (dialogs with timer fetches)
MaxText  == 1      \* longest advice text typed, in characters
NumPatients == 2   \* how many entries of the patient list are selectable

\* ------------------------------------------------------- program constants
SPO2_THRESHOLD == 95
MONO_THRESHOLD == 95
VALID_PATIENTS == <<1, 2, 3, 10, 42>>

Min2(a, b) == IF a < b THEN a ELSE b
PatientIndexes == 0 .. (Min2(NumPatients, Len(VALID_PATIENTS)) - 1)

\* ------------------------------------------------------------ python bits
\* dict.get(key, default) on a JSON object (a function on its keys)
Get(d, k, default) == IF k \in DOMAIN d THEN d[k] ELSE default

Chars == {" ", "a"}
IsSpace(c) == c = " "

RECURSIVE LStrip(_)
LStrip(s) == IF s # <<>> /\ IsSpace(Head(s)) THEN LStrip(Tail(s)) ELSE s

RECURSIVE RStrip(_)
RStrip(s) ==
  IF s # <<>> /\ IsSpace(s[Len(s)]) THEN RStrip(SubSeq(s, 1, Len(s) - 1)) ELSE s

\* str.strip()
Strip(s) == RStrip(LStrip(s))

SeqsUpTo(S, n) == UNION {[1 .. k -> S] : k \in 0 .. n}

Texts == SeqsUpTo(Chars, MaxText)

\* -------------------------------------------------------- the remote API
\* Timestamps a reading may carry: one well-formed ISO-8601 string and one
\* that datetime.fromisoformat rejects.  "" is what RPMApp substitutes for a
\* missing timestamp, and fromisoformat("") raises ValueError as well.
IsoTimestamp == "2025-03-01T08:30:00Z"
BadTimestamp == "yesterday"
Timestamps   == {IsoTimestamp, BadTimestamp}

\* datetime.fromisoformat(ts.replace('Z', '+00:00')): the parsed instant, or
\* ok = FALSE when the call raises ValueError
fromisoformat(ts) ==
  IF ts = IsoTimestamp
  THEN [ok |-> TRUE, y |-> "2025", mo |-> "03", mon |-> "Mar", d |-> "01",
        h |-> "08", mi |-> "30", s |-> "00"]
  ELSE [ok |-> FALSE, y |-> "", mo |-> "", mon |-> "", d |-> "",
        h |-> "", mi |-> "", s |-> ""]

Spo2Values == {SPO2_THRESHOLD - 1, SPO2_THRESHOLD}

\* The readings a response may carry: well formed, or with the spo2 field
\* missing, with a timestamp that does not parse, or with the timestamp
\* field missing.
Readings ==
  {[timestamp |-> IsoTimestamp, spo2 |-> v] : v \in Spo2Values}
    \cup {[timestamp |-> IsoTimestamp],
          [timestamp |-> BadTimestamp, spo2 |-> SPO2_THRESHOLD],
          [spo2 |-> SPO2_THRESHOLD - 1]}

Payloads == SeqsUpTo(Readings, MaxLen)

\* What a GET can come back with:
\*   "http_error"  network failure or non-2xx status (raise_for_status)
\*   "not_object"  a 2xx JSON body that is not an object
\*   "object"      a JSON object; has_measurements says whether the key exists
Failures ==
  {[kind |-> "http_error", has_measurements |-> FALSE, measurements |-> <<>>],
   [kind |-> "not_object", has_measurements |-> FALSE, measurements |-> <<>>]}

Objects(P) ==
  {[kind |-> "object", has_measurements |-> FALSE, measurements |-> <<>>]}
    \cup {[kind |-> "object", has_measurements |-> TRUE, measurements |-> p] :
            p \in P}

GetOutcomes == Failures \cup Objects(Payloads)

\* Responses whose readings are all well formed, over a wider range of spo2
\* values: out of the 0-100 domain on both sides, and around the threshold.
WideSpo2Values == {-1, SPO2_THRESHOLD - 1, SPO2_THRESHOLD, SPO2_THRESHOLD + 1, 101}

WidePayloads ==
  SeqsUpTo({[timestamp |-> IsoTimestamp, spo2 |-> v] : v \in WideSpo2Values},
           MaxWideLen)

WideGetOutcomes ==
  {r \in Failures : r.kind = "http_error"} \cup Objects(WidePayloads)

\* What a POST can come back with: the same failure kinds, or a JSON object
\* that may or may not carry "stored"
PostOutcomes ==
  {[kind |-> "http_error", body |-> <<>>],
   [kind |-> "not_object", body |-> <<>>],
   [kind |-> "object", body |-> <<>>],
   [kind |-> "object", body |-> [stored |-> TRUE]],
   [kind |-> "object", body |-> [stored |-> FALSE]]}

NoRequest == [method |-> "none", patient |-> 0, message |-> <<>>]

VARIABLES
  app,                    \* which program was launched
  \* ---- RPMApp
  combo,                  \* combobox_patient.currentIndex()
  current_patient,        \* self.current_patient (0 stands for None)
  evaluated_patient,      \* history: whose response update_status last
                          \* evaluated (0: none yet)
  measurements,           \* self.measurements
  status,                 \* self.status
  rows,                   \* the rows of self.table
  status_label,           \* status_label text
  patient_info,           \* patient_info text (by kind)
  patient_info_style,     \* patient_info style sheet: "normal" or "error"
  message_text,           \* message_text.toPlainText()
  message_text_enabled,
  send_button_enabled,
  send_button_text,
  refresh_button_enabled,
  refresh_button_text,
  timer_active,           \* the refresh QTimer has been started
  stack,                  \* handlers in progress, innermost last
  wire,                   \* the HTTP request the control thread is blocked on
  \* ---- RemotePatientMonitoringApp
  m_combo,                \* patient_combo.currentIndex()
  m_evaluated_patient,    \* history: whose response analyze_data last
                          \* evaluated (0: none yet)
  m_header,               \* patient_header text (by kind)
  m_status_label,         \* status_label text
  m_status_style,         \* status_label colour
  m_verdict,              \* the branch analyze_data last took
  m_group_enabled,        \* message_group.isEnabled()
  m_send_enabled,         \* send_button's own enabled flag
  m_send_text,
  m_fetch_enabled,
  m_fetch_text,
  m_rows,                 \* the rows of readings_table
  m_message_input,        \* message_input.toPlainText()
  m_main,                 \* where main() stands: "start", "exec", "crashed"
  m_stack,
  m_wire

rpmVars ==
  <<combo, current_patient, evaluated_patient, measurements, status, rows,
    status_label,
    patient_info, patient_info_style, message_text, message_text_enabled,
    send_button_enabled, send_button_text, refresh_button_enabled,
    refresh_button_text, timer_active, stack, wire>>

monoVars ==
  <<m_combo, m_evaluated_patient, m_header, m_status_label, m_status_style,
    m_verdict,
    m_group_enabled, m_send_enabled, m_send_text, m_fetch_enabled,
    m_fetch_text, m_rows, m_message_input, m_main, m_stack, m_wire>>

vars == <<app, rpmVars, monoVars>>

\* ------------------------------------------------------------ call stack
\* What a frame keeps of its trigger: a direct call by __init__ or by main(),
\* or a slot run by the event loop (a click, a selection, the timer); which
\* signal it was makes no difference once the handler runs.
Caller(trigger) == IF trigger \in {"init", "main"} THEN trigger ELSE "slot"

\* A frame: the handler (op), where it stands (pc), what called it (trigger),
\* the exception it caught (err), the response its POST came back with, and
\* how many HTTP requests and dialogs it has issued so far.
Frame(op, pc, trigger) ==
  [op |-> op, pc |-> pc, trigger |-> Caller(trigger), err |-> "none",
   response |-> [kind |-> "none", body |-> <<>>],
   requests |-> 0, dialogs |-> 0]

Top(stk) == stk[Len(stk)]
Pop(stk) == SubSeq(stk, 1, Len(stk) - 1)
SetTop(stk, f) == [stk EXCEPT ![Len(stk)] = f]
Idle(stk) == stk = <<>>
InDialog(stk) ==
  /\ stk # <<>>
  /\ Top(stk).pc \in {"error_dialog", "missing_dialog", "success_dialog",
                      "not_stored_dialog"}

\* (mutation: the request is issued a second time, as a retry would)
RequestingTwice(f, pc) == [f EXCEPT !.pc = pc, !.requests = @ + 2]

\* the frame after it issued one more HTTP request / opened one more dialog
Requesting(f, pc) == [f EXCEPT !.pc = pc, !.requests = @ + 1]
Showing(f, pc, err) == [f EXCEPT !.pc = pc, !.err = err, !.dialogs = @ + 1]

\* the frame after its POST came back with r
Bound(f, r) == [f EXCEPT !.response = r]

\* ===================================================================
\*                       RPMApp  (ui/main_window.py)
\* ===================================================================

\* one table row; a row inserted but never filled has cells = 0
Row(time, spo2, st) == [cells |-> 3, time |-> time, spo2 |-> spo2, status |-> st]
BlankRow == [cells |-> 0, time |-> "", spo2 |-> 0, status |-> ""]

\* dt.strftime("%H:%M, %d %b"), as its fields in order
strftime_rpm(dt) == <<dt.h, dt.mi, dt.d, dt.mon>>

\* (mutation: a reading equal to the threshold counts as low)
per_reading_status_gt(spo2) == IF spo2 > SPO2_THRESHOLD THEN "NORMAL" ELSE "LOW"

\* (mutation: the comparison is the wrong way round)
per_reading_status_reversed(spo2) ==
  IF spo2 >= SPO2_THRESHOLD THEN "LOW" ELSE "NORMAL"

\* the status text of one row (update_table)
per_reading_status(spo2) == IF spo2 >= SPO2_THRESHOLD THEN "NORMAL" ELSE "LOW"

\* The loop of update_table over the readings not yet shown: acc is the table
\* so far.  The row is inserted before the timestamp is parsed, so a reading
\* whose timestamp does not parse leaves a blank row and ends the loop.
RECURSIVE update_table_loop(_, _)
update_table_loop(ms, acc) ==
  IF ms = <<>> THEN [rows |-> acc, raised |-> FALSE]
  ELSE LET measurement == Head(ms)
           timestamp == Get(measurement, "timestamp", "")
           spo2 == Get(measurement, "spo2", 0)
           dt == fromisoformat(timestamp)
       IN IF ~dt.ok
          THEN [rows |-> Append(acc, BlankRow), raised |-> TRUE]
          ELSE update_table_loop(Tail(ms),
                 Append(acc, Row(strftime_rpm(dt), spo2, per_reading_status(spo2))))

\* update_table: setRowCount(0), then the loop
update_table(ms) == update_table_loop(ms, <<>>)

\* (mutation: the comparison is <= instead of <)
low_reading_le(ms) ==
  \E i \in 1 .. Len(ms) : Get(ms[i], "spo2", 0) <= SPO2_THRESHOLD

\* the scan of update_status for a reading below the threshold
low_reading(ms) ==
  \E i \in 1 .. Len(ms) : Get(ms[i], "spo2", 0) < SPO2_THRESHOLD

\* (mutation: a Warning once raised stays until the readings are empty)
update_status_latched(ms) ==
  IF ms = <<>>
  THEN [status |-> "Unknown", status_label |-> "Status: Unknown",
        message_text_enabled |-> FALSE, send_button_enabled |-> FALSE]
  ELSE IF low_reading(ms) \/ status = "Warning"
  THEN [status |-> "Warning", status_label |-> "WARNING",
        message_text_enabled |-> TRUE, send_button_enabled |-> TRUE]
  ELSE [status |-> "OK", status_label |-> "OK",
        message_text_enabled |-> FALSE, send_button_enabled |-> FALSE]

\* (mutation: no reading counts as all readings normal)
update_status_empty_ok(ms) ==
  IF low_reading(ms)
  THEN [status |-> "Warning", status_label |-> "WARNING",
        message_text_enabled |-> TRUE, send_button_enabled |-> TRUE]
  ELSE [status |-> "OK", status_label |-> "OK",
        message_text_enabled |-> FALSE, send_button_enabled |-> FALSE]

\* update_status: the verdict and what it does to the widgets
update_status(ms) ==
  IF ms = <<>>
  THEN [status |-> "Unknown", status_label |-> "Status: Unknown",
        message_text_enabled |-> FALSE, send_button_enabled |-> FALSE]
  ELSE IF low_reading(ms)
  THEN [status |-> "Warning", status_label |-> "WARNING",
        message_text_enabled |-> TRUE, send_button_enabled |-> TRUE]
  ELSE [status |-> "OK", status_label |-> "OK",
        message_text_enabled |-> FALSE, send_button_enabled |-> FALSE]

currentData == VALID_PATIENTS[combo + 1]

\* RPMApp is running: alone, or side by side with the single-file program
Rpm == app \in {"rpm", "both"}

\* a step of RPMApp running alone leaves the other program's state as it is
RpmFrame == IF app = "rpm" THEN UNCHANGED monoVars ELSE TRUE

\* fetch_patient_data up to the blocking GET (lines 76-87)
BeginFetch(trigger) ==
  /\ current_patient' = currentData'
  /\ refresh_button_enabled' = FALSE
  /\ refresh_button_text' = "Loading..."
  /\ patient_info' = "loading"
  /\ stack' = Append(stack, Requesting(Frame("fetch", "start", trigger), "get"))
  /\ wire' = [method |-> "GET", patient |-> currentData', message |-> <<>>]
  /\ UNCHANGED <<evaluated_patient, measurements, status, rows,
                 status_label, patient_info_style,
                 message_text, message_text_enabled, send_button_enabled,
                 send_button_text, timer_active>>

\* __init__ line 63: the fetch the constructor makes before it starts the timer
InitialFetch ==
  /\ Rpm /\ ~timer_active /\ Idle(stack)
  /\ combo' = combo
  /\ BeginFetch("init")
  /\ RpmFrame /\ UNCHANGED app

\* the refresh timer's timeout, delivered by the main event loop or by the
\* nested event loop of an open dialog
TimerFetch ==
  /\ Rpm /\ timer_active
  /\ Idle(stack) \/ InDialog(stack)
  /\ Len(stack) < MaxDepth
  /\ combo' = combo
  /\ BeginFetch("timer")
  /\ RpmFrame /\ UNCHANGED app

\* a click on the Refresh button
RefreshClick ==
  /\ Rpm /\ timer_active /\ Idle(stack) /\ refresh_button_enabled
  /\ combo' = combo
  /\ BeginFetch("refresh")
  /\ RpmFrame /\ UNCHANGED app

\* the user picks another patient: currentIndexChanged -> on_patient_changed
PatientChanged ==
  /\ Rpm /\ timer_active /\ Idle(stack)
  /\ \E i \in PatientIndexes : i # combo /\ combo' = i
  /\ BeginFetch("patient")
  /\ RpmFrame /\ UNCHANGED app

\* leaving the handler: the frame is popped; when the constructor's fetch
\* returns, __init__ goes on to start the timer (lines 66-68)
ReturnFrom(stk) ==
  /\ stack' = Pop(stk)
  /\ timer_active' = TRUE

\* the except branch of fetch_patient_data up to msg.exec_() (lines 106-114)
FetchRaise(err) ==
  /\ stack' = SetTop(stack, Showing(Top(stack), "error_dialog", err))
  /\ UNCHANGED timer_active

\* The GET returns with one of the outcomes S: lines 87-104, or the jump to
\* the except branch.
FetchResponseOn(S) ==
  /\ Rpm /\ stack # <<>> /\ Top(stack).op = "fetch" /\ Top(stack).pc = "get"
  /\ wire' = NoRequest
  /\ \E r \in S :
       CASE r.kind = "http_error" ->
              /\ FetchRaise("transport")
              /\ UNCHANGED <<evaluated_patient, measurements, rows,
                             patient_info, status,
                             status_label, message_text_enabled,
                             send_button_enabled, refresh_button_enabled,
                             refresh_button_text>>
         [] r.kind = "not_object" ->
              /\ FetchRaise("decode")
              /\ UNCHANGED <<evaluated_patient, measurements, rows,
                             patient_info, status,
                             status_label, message_text_enabled,
                             send_button_enabled, refresh_button_enabled,
                             refresh_button_text>>
         [] OTHER ->
              LET ms == IF r.has_measurements THEN r.measurements ELSE <<>>
                  t == update_table(ms)
                  u == update_status(ms)
              IN /\ measurements' = ms
                 /\ patient_info' = IF ms # <<>> THEN "patient" ELSE "no_data"
                 /\ rows' = t.rows
                 /\ IF t.raised
                    THEN /\ FetchRaise("decode")
                         /\ UNCHANGED <<evaluated_patient, status,
                                        status_label, message_text_enabled,
                                        send_button_enabled,
                                        refresh_button_enabled,
                                        refresh_button_text>>
                    ELSE /\ status' = u.status
                         /\ evaluated_patient' = wire.patient
                         /\ status_label' = u.status_label
                         /\ message_text_enabled' = u.message_text_enabled
                         /\ send_button_enabled' = u.send_button_enabled
                         /\ refresh_button_text' = "Refresh"
                         /\ refresh_button_enabled' = TRUE
                         /\ ReturnFrom(stack)
  /\ RpmFrame /\ UNCHANGED <<app, combo, current_patient, patient_info_style,
                 message_text, send_button_text>>

FetchResponse == FetchResponseOn(GetOutcomes)

\* the error dialog of a fetch is closed: lines 116-129
FetchErrorClose ==
  /\ Rpm /\ stack # <<>>
  /\ Top(stack).op = "fetch" /\ Top(stack).pc = "error_dialog"
  /\ refresh_button_text' = "Refresh"
  /\ refresh_button_enabled' = TRUE
  /\ patient_info' = "error"
  /\ patient_info_style' = "error"
  /\ ReturnFrom(stack)
  /\ RpmFrame /\ UNCHANGED <<app, combo, current_patient, evaluated_patient,
                 measurements, status,
                 rows, status_label, message_text, message_text_enabled,
                 send_button_enabled, send_button_text, wire>>

\* the clinician edits the advice text (possible only while the field is
\* enabled and no modal dialog or blocking call holds the window)
EditText ==
  /\ Rpm /\ timer_active /\ Idle(stack) /\ message_text_enabled
  /\ \E t \in Texts : t # message_text /\ message_text' = t
  /\ RpmFrame /\ UNCHANGED <<app, combo, current_patient, evaluated_patient,
                 measurements, status,
                 rows, status_label, patient_info, patient_info_style,
                 message_text_enabled, send_button_enabled, send_button_text,
                 refresh_button_enabled, refresh_button_text,
                 timer_active, stack, wire>>

\* (mutation: the verdict is not looked at)
send_allowed_any_verdict(patient, st) == ~(patient = 0)

\* send_message line 247: the handler goes on only with a patient and a
\* Warning verdict
send_allowed(patient, st) == ~(patient = 0 \/ st # "Warning")

\* (mutation: a missing "stored" counts as stored)
stored_default_true(result) == Get(result, "stored", TRUE)

\* result.get("stored", False) of send_message line 270
stored_rpm(result) == Get(result, "stored", FALSE)

\* A click on Send Advice: send_message lines 245-268, up to its first dialog,
\* its blocking POST, or the bare return of line 248 (pc "ignored").
SendClick ==
  /\ Rpm /\ timer_active /\ Idle(stack) /\ send_button_enabled
  /\ LET message == Strip(message_text)
     IN IF ~send_allowed(current_patient, status)
        THEN /\ stack' = Append(stack, Frame("send", "ignored", "send"))
             /\ UNCHANGED <<wire, send_button_enabled, send_button_text>>
        ELSE IF message = <<>>
        THEN /\ stack' = Append(stack,
                           Showing(Frame("send", "start", "send"),
                                   "missing_dialog", "none"))
             /\ UNCHANGED <<wire, send_button_enabled, send_button_text>>
        ELSE /\ send_button_enabled' = FALSE
             /\ send_button_text' = "Sending..."
             /\ stack' = Append(stack,
                           Requesting(Frame("send", "start", "send"), "post"))
             /\ wire' = [method |-> "POST", patient |-> current_patient,
                         message |-> message]
  /\ RpmFrame /\ UNCHANGED <<app, combo, current_patient, evaluated_patient,
                 measurements, status,
                 rows, status_label, patient_info, patient_info_style,
                 message_text, message_text_enabled, refresh_button_enabled,
                 refresh_button_text, timer_active>>

\* send_message returns without having done anything (line 248), or the
\* "Missing Message" dialog is closed and it returns (line 261)
SendMissingClose ==
  /\ Rpm /\ stack # <<>>
  /\ Top(stack).op = "send" /\ Top(stack).pc \in {"ignored", "missing_dialog"}
  /\ ReturnFrom(stack)
  /\ RpmFrame /\ UNCHANGED <<app, combo, current_patient, evaluated_patient,
                 measurements, status,
                 rows, status_label, patient_info, patient_info_style,
                 message_text, message_text_enabled, send_button_enabled,
                 send_button_text, refresh_button_enabled, refresh_button_text, wire>>

\* which dialog send_message opens for what the POST came back with
\* (lines 268-304)
send_dialog(r) ==
  IF r.kind = "http_error" THEN [pc |-> "error_dialog", err |-> "transport"]
  ELSE IF r.kind = "not_object" THEN [pc |-> "error_dialog", err |-> "decode"]
  ELSE IF stored_rpm(r.body) THEN [pc |-> "success_dialog", err |-> "none"]
  ELSE [pc |-> "not_stored_dialog", err |-> "none"]

\* the POST returns and send_message opens the dialog for the outcome
SendResponse ==
  /\ Rpm /\ stack # <<>> /\ Top(stack).op = "send" /\ Top(stack).pc = "post"
  /\ wire' = NoRequest
  /\ \E r \in PostOutcomes :
       LET dlg == send_dialog(r)
       IN stack' = SetTop(stack, Showing(Bound(Top(stack), r), dlg.pc, dlg.err))
  /\ RpmFrame /\ UNCHANGED <<app, combo, current_patient, evaluated_patient,
                 measurements, status,
                 rows, status_label, patient_info, patient_info_style,
                 message_text, message_text_enabled, send_button_enabled,
                 send_button_text, refresh_button_enabled, refresh_button_text, timer_active>>

\* (mutation: the text is cleared whatever the outcome)
text_always_cleared(pc, text) == <<>>

\* the advice text after send_message's dialog pc is closed
text_after_send(pc, text) == IF pc = "success_dialog" THEN <<>> ELSE text

\* the dialog of a send is closed: lines 279-280, 291-294 or 306-308
SendDialogClose ==
  /\ Rpm /\ stack # <<>> /\ Top(stack).op = "send"
  /\ Top(stack).pc \in {"success_dialog", "not_stored_dialog", "error_dialog"}
  /\ message_text' = text_after_send(Top(stack).pc, message_text)
  /\ send_button_text' = "Send Advice"
  /\ send_button_enabled' = TRUE
  /\ ReturnFrom(stack)
  /\ RpmFrame /\ UNCHANGED <<app, combo, current_patient, evaluated_patient,
                 measurements, status,
                 rows, status_label, patient_info, patient_info_style,
                 message_text_enabled, refresh_button_enabled,
                 refresh_button_text, wire>>

RpmInit ==
  /\ combo = 0
  /\ current_patient = 0
  /\ evaluated_patient = 0
  /\ measurements = <<>>
  /\ status = "Unknown"
  /\ rows = <<>>
  /\ status_label = "Status: Unknown"
  /\ patient_info = "none"
  /\ patient_info_style = "normal"
  /\ message_text = <<>>
  /\ message_text_enabled = FALSE
  /\ send_button_enabled = FALSE
  /\ send_button_text = "Send Advice"
  /\ refresh_button_enabled = TRUE
  /\ refresh_button_text = "Refresh"
  /\ timer_active = FALSE
  /\ stack = <<>>
  /\ wire = NoRequest

RpmNext ==
  \/ InitialFetch
  \/ TimerFetch
  \/ RefreshClick
  \/ PatientChanged
  \/ FetchResponse
  \/ FetchErrorClose
  \/ EditText
  \/ SendClick
  \/ SendMissingClose
  \/ SendResponse
  \/ SendDialogClose

\* ===================================================================
\*        RemotePatientMonitoringApp  (RemotePatientMonitoringApp.py)
\* ===================================================================

\* the single-file program is running: alone, or side by side with RPMApp
Mono == app \in {"mono", "both"}

\* a step of the single-file program running alone leaves RPMApp's state as
\* it is
MonoFrame == IF app = "mono" THEN UNCHANGED rpmVars ELSE TRUE

\* patient_combo.currentText(): the items are the same five ids
m_currentText == VALID_PATIENTS[m_combo + 1]

\* timestamp.strftime("%Y-%m-%d %H:%M:%S"), as its fields in order
strftime_mono(dt) == <<dt.y, dt.mo, dt.d, dt.h, dt.mi, dt.s>>

\* the status text of one row (display_data line 367)
m_reading_status(spo2) == IF spo2 >= MONO_THRESHOLD THEN "OK" ELSE "Warning"

\* The loop of display_data from row i on: table holds the rows so far.
\* measurement["timestamp"] and measurement["spo2"] raise KeyError when the
\* key is missing, fromisoformat raises ValueError; the rows not reached
\* stay blank.
RECURSIVE display_data_loop(_, _, _)
display_data_loop(ms, i, table) ==
  IF i > Len(ms) THEN [rows |-> table, raised |-> FALSE]
  ELSE LET measurement == ms[i]
       IN IF "timestamp" \notin DOMAIN measurement
          THEN [rows |-> table, raised |-> TRUE]
          ELSE LET dt == fromisoformat(measurement["timestamp"])
               IN IF ~dt.ok \/ "spo2" \notin DOMAIN measurement
                  THEN [rows |-> table, raised |-> TRUE]
                  ELSE LET spo2 == measurement["spo2"]
                       IN display_data_loop(ms, i + 1,
                            [table EXCEPT ![i] =
                               Row(strftime_mono(dt), spo2, m_reading_status(spo2))])

\* display_data: setRowCount(0), setRowCount(len(measurements)), the loop
display_data(ms) == display_data_loop(ms, 1, [i \in 1 .. Len(ms) |-> BlankRow])

\* min(spo2_values)
RECURSIVE min_spo2(_)
min_spo2(ms) ==
  IF Len(ms) = 1 THEN ms[1]["spo2"]
  ELSE Min2(ms[1]["spo2"], min_spo2(Tail(ms)))

\* analyze_data: the verdict and what it does to the widgets
analyze_data(ms) ==
  IF ms = <<>>
  THEN [verdict |-> "Unknown", status_label |-> "Status: No data available",
        style |-> "gray", group_enabled |-> FALSE]
  ELSE IF min_spo2(ms) >= MONO_THRESHOLD
  THEN [verdict |-> "OK", status_label |-> "Status: OK",
        style |-> "green", group_enabled |-> FALSE]
  ELSE [verdict |-> "Warning", status_label |-> "Status: Warning",
        style |-> "red", group_enabled |-> TRUE]

\* fetch_patient_data up to the blocking GET (lines 316-325)
m_BeginFetch(trigger) ==
  /\ m_fetch_enabled' = FALSE
  /\ m_fetch_text' = "Loading..."
  /\ m_header' = "loading"
  /\ m_stack' = Append(m_stack, Requesting(Frame("fetch", "start", trigger), "get"))
  /\ m_wire' = [method |-> "GET", patient |-> m_currentText, message |-> <<>>]
  /\ UNCHANGED <<m_combo, m_evaluated_patient, m_status_label,
                 m_status_style, m_verdict,
                 m_group_enabled, m_send_enabled, m_send_text, m_rows,
                 m_message_input, m_main>>

\* main() line 520: the first fetch, called before app.exec()
m_InitialFetch ==
  /\ Mono /\ m_main = "start" /\ Idle(m_stack)
  /\ m_BeginFetch("main")
  /\ MonoFrame /\ UNCHANGED app

\* the refresh timer's timeout (started in __init__), delivered by the main
\* event loop or by the nested event loop of an open dialog
m_TimerFetch ==
  /\ Mono
  /\ (m_main = "exec" /\ Idle(m_stack)) \/ InDialog(m_stack)
  /\ Len(m_stack) < MaxDepth
  /\ m_BeginFetch("timer")
  /\ MonoFrame /\ UNCHANGED app

\* a click on Fetch Data
m_FetchClick ==
  /\ Mono /\ m_main = "exec" /\ Idle(m_stack) /\ m_fetch_enabled
  /\ m_BeginFetch("click")
  /\ MonoFrame /\ UNCHANGED app

\* the user picks another patient: no handler is connected
m_SelectPatient ==
  /\ Mono /\ m_main = "exec" /\ Idle(m_stack)
  /\ \E i \in PatientIndexes : i # m_combo /\ m_combo' = i
  /\ MonoFrame /\ UNCHANGED <<app, m_evaluated_patient, m_header,
                 m_status_label, m_status_style,
                 m_verdict, m_group_enabled, m_send_enabled, m_send_text,
                 m_fetch_enabled, m_fetch_text, m_rows, m_message_input,
                 m_main, m_stack, m_wire>>

\* Leaving a handler.  main() goes on to app.exec() when its own call
\* returns, and dies when an exception comes out of it; an exception that
\* comes out of a slot is reported by the binding and the event loop goes on.
m_ReturnFrom(stk, uncaught) ==
  /\ m_stack' = Pop(stk)
  /\ m_main' = IF Top(stk).trigger # "main" THEN m_main
               ELSE IF uncaught THEN "crashed" ELSE "exec"

\* The GET returns: lines 326-336 and the finally block, or the except
\* branch up to QMessageBox.critical.
m_FetchResponseOn(S) ==
  /\ Mono /\ m_stack # <<>>
  /\ Top(m_stack).op = "fetch" /\ Top(m_stack).pc = "get"
  /\ m_wire' = NoRequest
  /\ \E r \in S :
       CASE r.kind = "http_error" ->
              /\ m_stack' = SetTop(m_stack,
                              Showing(Top(m_stack), "error_dialog", "transport"))
              /\ UNCHANGED <<m_evaluated_patient, m_header, m_rows,
                             m_status_label, m_status_style,
                             m_verdict, m_group_enabled, m_fetch_enabled,
                             m_fetch_text, m_main>>
         [] r.kind = "not_object" ->
              /\ m_header' = "patient"
              /\ m_rows' = <<>>
              /\ m_fetch_enabled' = TRUE
              /\ m_fetch_text' = "Fetch Data"
              /\ m_ReturnFrom(m_stack, TRUE)
              /\ UNCHANGED <<m_evaluated_patient, m_status_label,
                             m_status_style, m_verdict, m_group_enabled>>
         [] OTHER ->
              LET ms == IF r.has_measurements THEN r.measurements ELSE <<>>
                  t == display_data(ms)
                  a == analyze_data(ms)
              IN /\ m_header' = "patient"
                 /\ m_rows' = t.rows
                 /\ m_fetch_enabled' = TRUE
                 /\ m_fetch_text' = "Fetch Data"
                 /\ m_ReturnFrom(m_stack, t.raised)
                 /\ IF t.raised
                    THEN UNCHANGED <<m_evaluated_patient, m_status_label,
                                     m_status_style, m_verdict,
                                     m_group_enabled>>
                    ELSE /\ m_status_label' = a.status_label
                         /\ m_status_style' = a.style
                         /\ m_verdict' = a.verdict
                         /\ m_evaluated_patient' = m_wire.patient
                         /\ m_group_enabled' = a.group_enabled
  /\ MonoFrame /\ UNCHANGED <<app, m_combo, m_send_enabled, m_send_text,
                 m_message_input>>

m_FetchResponse == m_FetchResponseOn(GetOutcomes)

\* the error dialog of a fetch is closed: lines 340-347
m_FetchErrorClose ==
  /\ Mono /\ m_stack # <<>>
  /\ Top(m_stack).op = "fetch" /\ Top(m_stack).pc = "error_dialog"
  /\ m_header' = "error"
  /\ m_status_label' = "Status: Error"
  /\ m_status_style' = "red"
  /\ m_fetch_enabled' = TRUE
  /\ m_fetch_text' = "Fetch Data"
  /\ m_ReturnFrom(m_stack, FALSE)
  /\ MonoFrame /\ UNCHANGED <<app, m_combo, m_evaluated_patient, m_verdict,
                 m_group_enabled,
                 m_send_enabled, m_send_text, m_rows, m_message_input, m_wire>>

\* the clinician edits the advice text (the field is inside message_group)
m_EditText ==
  /\ Mono /\ m_main = "exec" /\ Idle(m_stack) /\ m_group_enabled
  /\ \E t \in Texts : t # m_message_input /\ m_message_input' = t
  /\ MonoFrame /\ UNCHANGED <<app, m_combo, m_evaluated_patient, m_header,
                 m_status_label,
                 m_status_style, m_verdict, m_group_enabled, m_send_enabled,
                 m_send_text, m_fetch_enabled, m_fetch_text, m_rows, m_main,
                 m_stack, m_wire>>

\* result.get("stored") of send_message line 442, as its truth value
stored_mono(result) == Get(result, "stored", FALSE)

\* A click on Send Advice (the button is inside message_group, so it takes
\* clicks only while the group and the button are both enabled):
\* send_message lines 424-438, up to its first dialog or its blocking POST.
m_SendClick ==
  /\ Mono /\ m_main = "exec" /\ Idle(m_stack)
  /\ m_group_enabled /\ m_send_enabled
  /\ LET message_text_ == Strip(m_message_input)
     IN IF message_text_ = <<>>
        THEN /\ m_stack' = Append(m_stack,
                             Showing(Frame("send", "start", "send"),
                                     "missing_dialog", "none"))
             /\ UNCHANGED <<m_wire, m_send_enabled, m_send_text>>
        ELSE /\ m_send_enabled' = FALSE
             /\ m_send_text' = "Sending..."
             /\ m_stack' = Append(m_stack,
                             Requesting(Frame("send", "start", "send"), "post"))
             /\ m_wire' = [method |-> "POST", patient |-> m_currentText,
                           message |-> message_text_]
  /\ MonoFrame /\ UNCHANGED <<app, m_combo, m_evaluated_patient, m_header,
                 m_status_label,
                 m_status_style, m_verdict, m_group_enabled, m_fetch_enabled,
                 m_fetch_text, m_rows, m_message_input, m_main>>

\* the "enter advice" warning is closed: line 427
m_SendMissingClose ==
  /\ Mono /\ m_stack # <<>>
  /\ Top(m_stack).op = "send" /\ Top(m_stack).pc = "missing_dialog"
  /\ m_ReturnFrom(m_stack, FALSE)
  /\ MonoFrame /\ UNCHANGED <<app, m_combo, m_evaluated_patient, m_header,
                 m_status_label,
                 m_status_style, m_verdict, m_group_enabled, m_send_enabled,
                 m_send_text, m_fetch_enabled, m_fetch_text, m_rows,
                 m_message_input, m_wire>>

\* which dialog send_message opens for what the POST came back with (lines
\* 439-473); "none" when the exception is not a RequestException and leaves
\* the handler through the finally block
m_send_dialog(r) ==
  IF r.kind = "http_error" THEN [pc |-> "error_dialog", err |-> "transport"]
  ELSE IF r.kind = "not_object" THEN [pc |-> "none", err |-> "decode"]
  ELSE IF stored_mono(r.body) THEN [pc |-> "success_dialog", err |-> "none"]
  ELSE [pc |-> "not_stored_dialog", err |-> "none"]

\* the POST returns
m_SendResponse ==
  /\ Mono /\ m_stack # <<>>
  /\ Top(m_stack).op = "send" /\ Top(m_stack).pc = "post"
  /\ m_wire' = NoRequest
  /\ \E r \in PostOutcomes :
       LET dlg == m_send_dialog(r)
       IN IF dlg.pc = "none"
          THEN /\ m_send_enabled' = TRUE
               /\ m_send_text' = "Send Advice"
               /\ m_ReturnFrom(m_stack, TRUE)
          ELSE /\ m_stack' = SetTop(m_stack,
                               Showing(Bound(Top(m_stack), r), dlg.pc, dlg.err))
               /\ UNCHANGED <<m_send_enabled, m_send_text, m_main>>
  /\ MonoFrame /\ UNCHANGED <<app, m_combo, m_evaluated_patient, m_header,
                 m_status_label,
                 m_status_style, m_verdict, m_group_enabled, m_fetch_enabled,
                 m_fetch_text, m_rows, m_message_input>>

\* the advice text after send_message's dialog pc is closed (line 464)
m_text_after_send(pc, text) == IF pc = "success_dialog" THEN <<>> ELSE text

\* the dialog of a send is closed: line 464 and the finally block
m_SendDialogClose ==
  /\ Mono /\ m_stack # <<>> /\ Top(m_stack).op = "send"
  /\ Top(m_stack).pc \in {"success_dialog", "not_stored_dialog", "error_dialog"}
  /\ m_message_input' = m_text_after_send(Top(m_stack).pc, m_message_input)
  /\ m_send_enabled' = TRUE
  /\ m_send_text' = "Send Advice"
  /\ m_ReturnFrom(m_stack, FALSE)
  /\ MonoFrame /\ UNCHANGED <<app, m_combo, m_evaluated_patient, m_header,
                 m_status_label,
                 m_status_style, m_verdict, m_group_enabled, m_fetch_enabled,
                 m_fetch_text, m_rows, m_wire>>

MonoInit ==
  /\ m_combo = 0
  /\ m_evaluated_patient = 0
  /\ m_header = "none"
  /\ m_status_label = "Status: Not analyzed yet"
  /\ m_status_style = "default"
  /\ m_verdict = "Unknown"
  /\ m_group_enabled = FALSE
  /\ m_send_enabled = TRUE
  /\ m_send_text = "Send Advice"
  /\ m_fetch_enabled = TRUE
  /\ m_fetch_text = "Fetch Data"
  /\ m_rows = <<>>
  /\ m_message_input = <<>>
  /\ m_main = "start"
  /\ m_stack = <<>>
  /\ m_wire = NoRequest

MonoNext ==
  \/ m_InitialFetch
  \/ m_TimerFetch
  \/ m_FetchClick
  \/ m_SelectPatient
  \/ m_FetchResponse
  \/ m_FetchErrorClose
  \/ m_EditText
  \/ m_SendClick
  \/ m_SendMissingClose
  \/ m_SendResponse
  \/ m_SendDialogClose

\* ===================================================================
\*                          the specification
\* ===================================================================

Init ==
  /\ app \in {"rpm", "mono"}
  /\ RpmInit
  /\ MonoInit

Next == RpmNext \/ MonoNext

Spec == Init /\ [][Next]_vars

\* The same programs fed well-formed responses over the wide spo2 range.
WideFetchResponse == FetchResponseOn(WideGetOutcomes)

m_WideFetchResponse == m_FetchResponseOn(WideGetOutcomes)

NextWide ==
  \/ InitialFetch
  \/ TimerFetch
  \/ RefreshClick
  \/ WideFetchResponse
  \/ FetchErrorClose
  \/ m_InitialFetch
  \/ m_TimerFetch
  \/ m_FetchClick
  \/ m_WideFetchResponse
  \/ m_FetchErrorClose

SpecWide == Init /\ [][NextWide]_vars

\* ===================================================================
\*                             the claims
\* ===================================================================

Frames(stk) == {stk[i] : i \in 1 .. Len(stk)}

AfterResponse == {"success_dialog", "not_stored_dialog", "error_dialog"}

\* C1 (SpecWide) - After a successful fetch of readings with integer spo2
\* values (out-of-range ones included, nothing clamped) the verdict is
\* Unknown iff there is no reading, Warning iff there is a reading and some
\* spo2 is below the threshold, OK iff there is a reading and every spo2 is
\* at or above the threshold.  RPMApp holds the verdict in status; the
\* single-file program shows it in status_label.
C1_VerdictOfReadings ==
  /\ (Rpm /\ patient_info \in {"patient", "no_data"}) =>
       LET R == measurements
           some_low == \E i \in 1 .. Len(R) : R[i].spo2 < SPO2_THRESHOLD
           all_ok == \A i \in 1 .. Len(R) : R[i].spo2 >= SPO2_THRESHOLD
       IN /\ (status = "Unknown") <=> (R = <<>>)
          /\ (status = "Warning") <=> (R # <<>> /\ some_low)
          /\ (status = "OK") <=> (R # <<>> /\ all_ok)
  /\ (Mono /\ m_header = "patient") =>
       LET R == m_rows
           some_low == \E i \in 1 .. Len(R) : R[i].spo2 < MONO_THRESHOLD
           all_ok == \A i \in 1 .. Len(R) : R[i].spo2 >= MONO_THRESHOLD
       IN /\ (m_status_label = "Status: No data available") <=> (R = <<>>)
          /\ (m_status_label = "Status: Warning") <=> (R # <<>> /\ some_low)
          /\ (m_status_label = "Status: OK") <=> (R # <<>> /\ all_ok)

\* C1 witness: a fetch returned a reading equal to the threshold and one
\* above 100, and the verdict is OK
C1_Witness ==
  /\ Rpm /\ Idle(stack) /\ patient_info = "patient"
  /\ Len(measurements) = 2
  /\ measurements[1].spo2 = SPO2_THRESHOLD /\ measurements[2].spo2 = 101
  /\ status = "OK"

\* C2 - In RPMApp, whenever no fetch or send is in progress, the advice
\* controls (message_text and send_button) are enabled iff status is Warning.
C2_AdviceGate ==
  (Rpm /\ Idle(stack)) =>
    /\ message_text_enabled <=> (status = "Warning")
    /\ send_button_enabled <=> (status = "Warning")

\* C3 - An advice POST is issued only while the latest verdict is Warning
\* (the control thread is blocked on the POST while it is on the wire).
C3_PostOnlyOnWarning ==
  /\ (Rpm /\ wire.method = "POST") => status = "Warning"
  /\ (Mono /\ m_wire.method = "POST") => m_verdict = "Warning"

\* C3 witness: RPMApp has an advice POST on the wire
C3_Witness == Rpm /\ wire.method = "POST" /\ wire.message # <<>>

\* C4 - send_message called with empty or whitespace-only advice text makes
\* no HTTP request and reports the misuse with a warning dialog.
C4_EmptyAdviceWarned ==
  /\ (Rpm /\ stack # <<>> /\ Top(stack).op = "send"
          /\ Strip(message_text) = <<>>) =>
       /\ Top(stack).pc = "missing_dialog"
       /\ Top(stack).requests = 0 /\ wire = NoRequest
  /\ (Mono /\ m_stack # <<>> /\ Top(m_stack).op = "send"
           /\ Strip(m_message_input) = <<>>) =>
       /\ Top(m_stack).pc = "missing_dialog"
       /\ Top(m_stack).requests = 0 /\ m_wire = NoRequest

\* the step in which the running fetch learns of failure err
FetchFails(stk, stk2, err) ==
  /\ stk # <<>> /\ Top(stk).op = "fetch" /\ Top(stk).pc = "get"
  /\ Len(stk2) = Len(stk) /\ Top(stk2).err = err

\* the step in which the error dialog of a fetch that failed with err closes
FetchFailureShown(stk, stk2, err) ==
  /\ stk # <<>> /\ Top(stk).op = "fetch" /\ Top(stk).pc = "error_dialog"
  /\ Top(stk).err = err /\ stk2 = Pop(stk)

\* the texts by which the single-file program displays a verdict
VerdictLabels ==
  {"Status: No data available", "Status: OK", "Status: Warning"}

\* C5 - A fetch that fails with a transport error leaves the previous
\* readings and the previous verdict unchanged and displayed, and marks the
\* display as errored.
C5_TransportFailureKeepsDisplay ==
  [][/\ (Rpm /\ FetchFails(stack, stack', "transport")) =>
          UNCHANGED <<measurements, rows, status, status_label>>
     /\ (Rpm /\ FetchFailureShown(stack, stack', "transport")) =>
          /\ UNCHANGED <<measurements, rows, status, status_label>>
          /\ patient_info' = "error" /\ patient_info_style' = "error"
     /\ (Mono /\ FetchFails(m_stack, m_stack', "transport")) =>
          UNCHANGED <<m_rows, m_verdict, m_status_label>>
     /\ (Mono /\ FetchFailureShown(m_stack, m_stack', "transport")) =>
          /\ UNCHANGED <<m_rows, m_verdict>>
          /\ m_status_label \in VerdictLabels => UNCHANGED m_status_label
          /\ m_header' = "error"]_vars

\* C6 - A fetch that fails with a decode error leaves the previous readings
\* and the previous verdict in place and marks the display as errored.  (In
\* the single-file program a reading that cannot be decoded leaves the rows
\* from it on blank.)
C6_DecodeFailureKeepsDisplay ==
  [][/\ (Rpm /\ FetchFails(stack, stack', "decode")) =>
          UNCHANGED <<measurements, rows, status, status_label>>
     /\ (Rpm /\ FetchFailureShown(stack, stack', "decode")) =>
          /\ UNCHANGED <<measurements, rows, status, status_label>>
          /\ patient_info' = "error" /\ patient_info_style' = "error"
     /\ (Mono /\ m_stack # <<>> /\ Top(m_stack).pc = "get"
              /\ m_stack' = Pop(m_stack)
              /\ \E i \in 1 .. Len(m_rows') : m_rows'[i].cells = 0) =>
          /\ UNCHANGED <<m_rows, m_verdict>>
          /\ m_header' = "error"]_vars

\* C7 - A reading that lacks timestamp or spo2 is never shown as a row with
\* a substituted value (the fetch fails instead).
C7_NoSubstitutedReading ==
  Rpm => \A i \in 1 .. Len(rows) :
           rows[i].cells = 3 =>
             {"timestamp", "spo2"} \subseteq DOMAIN measurements[i]

\* the step in which the dialog of a send whose POST was stored closes
StoredSendCloses(stk, stk2) ==
  /\ stk # <<>> /\ Top(stk).op = "send" /\ Top(stk).pc = "success_dialog"
  /\ Top(stk).response.kind = "object"
  /\ "stored" \in DOMAIN Top(stk).response.body
  /\ Top(stk).response.body.stored = TRUE
  /\ stk2 = Pop(stk)

\* C8 - The advice text changes only when the clinician edits it (no handler
\* running) or when a send ends with an acknowledgment whose stored is true,
\* which clears it; so after a failed send or a stored = false
\* acknowledgment the text is what it was before the send.
C8_TextClearedOnlyWhenStored ==
  [][/\ message_text' # message_text =>
          \/ Idle(stack) /\ stack' = stack
          \/ StoredSendCloses(stack, stack') /\ message_text' = <<>>
     /\ m_message_input' # m_message_input =>
          \/ Idle(m_stack) /\ m_stack' = m_stack
          \/ StoredSendCloses(m_stack, m_stack') /\ m_message_input' = <<>>]_vars

\* C8 witness: a send failed, its error dialog is open, the text is intact
C8_Witness ==
  /\ Rpm /\ stack # <<>> /\ Top(stack).op = "send"
  /\ Top(stack).pc = "error_dialog" /\ message_text # <<>>

\* the POST of frame f came back as a JSON object without a true "stored"
NotStored(f) ==
  /\ f.op = "send" /\ f.pc \in AfterResponse
  /\ f.response.kind = "object"
  /\ "stored" \in DOMAIN f.response.body => f.response.body.stored = FALSE

\* C9 - A send response whose stored is false or missing is surfaced by the
\* "not stored" warning dialog, never by the error or the success dialog.
C9_NotStoredIsWarning ==
  \A f \in Frames(stack) \cup Frames(m_stack) :
    NotStored(f) => f.pc = "not_stored_dialog"

\* C9 witness: RPMApp shows the warning for a response without "stored"
C9_Witness ==
  /\ Rpm /\ stack # <<>> /\ Top(stack).pc = "not_stored_dialog"
  /\ Top(stack).response.kind = "object"
  /\ "stored" \notin DOMAIN Top(stack).response.body

\* C10 - No retries: a handler issues at most one HTTP request, and a failed
\* request is surfaced by exactly one dialog with no further request made.
C10_NoRetry ==
  /\ \A f \in Frames(stack) \cup Frames(m_stack) :
       /\ f.requests <= 1 /\ f.dialogs <= 1
       /\ f.pc = "error_dialog" => f.requests = 1 /\ f.dialogs = 1
  /\ InDialog(stack) => wire = NoRequest
  /\ InDialog(m_stack) => m_wire = NoRequest

\* C10 witness: a fetch failed; its one request is over, its dialog is open
C10_Witness ==
  /\ Rpm /\ stack # <<>> /\ Top(stack).op = "fetch"
  /\ Top(stack).pc = "error_dialog" /\ Top(stack).requests = 1

\* the step in which the running fetch returns without having failed
FetchSucceeds(stk, stk2) ==
  /\ stk # <<>> /\ Top(stk).op = "fetch" /\ Top(stk).pc = "get"
  /\ stk2 = Pop(stk)

\* the measurements list a response object carries (data.get, line 88)
Carried(r) == IF r.has_measurements THEN r.measurements ELSE <<>>

\* C11 - Replace, don't merge: in RPMApp the held readings and the displayed
\* rows change only in the step in which a fetch completes successfully, and
\* then they are the list that response carried: one row per reading, in the
\* order of the response, nothing kept from before.
C11_ReplaceDontMerge ==
  [][Rpm =>
       /\ (measurements' # measurements \/ rows' # rows) =>
            FetchSucceeds(stack, stack')
       /\ FetchSucceeds(stack, stack') =>
            /\ \E r \in Objects(Payloads \cup WidePayloads) :
                 measurements' = Carried(r)
            /\ Len(rows') = Len(measurements')
            /\ \A i \in 1 .. Len(rows') :
                 "spo2" \in DOMAIN measurements'[i] =>
                   rows'[i].spo2 = measurements'[i].spo2]_vars

\* C12 - Operations never interleave: a fetch or a send starts only when no
\* other operation is in progress (an operation showing its result dialog is
\* still in progress), and the held readings and the verdict are changed only
\* by the one operation in progress.
C12_NoInterleaving ==
  [][/\ Rpm =>
          /\ Len(stack') > Len(stack) => Idle(stack)
          /\ (measurements' # measurements \/ status' # status) =>
               Len(stack) = 1
     /\ Mono =>
          /\ Len(m_stack') > Len(m_stack) => Idle(m_stack)
          /\ (m_rows' # m_rows \/ m_verdict' # m_verdict) =>
               Len(m_stack) = 1]_vars

\* ===================================================================
\*                    the specification with fairness
\* ===================================================================

\* the dialog on top of a stack of depth k is closed
CloseAt(k) ==
  \/ Len(stack) = k /\ (FetchErrorClose \/ SendMissingClose \/ SendDialogClose)
  \/ Len(m_stack) = k
       /\ (m_FetchErrorClose \/ m_SendMissingClose \/ m_SendDialogClose)

\* A blocking requests.get / requests.post returns or raises (nothing else
\* can run meanwhile: the call holds the only thread), and the clinician
\* closes every modal dialog; the refresh timer may fire any number of times
\* before they do, so the closing of each dialog is strongly fair.
Fairness ==
  /\ WF_vars(FetchResponse) /\ WF_vars(SendResponse)
  /\ WF_vars(m_FetchResponse) /\ WF_vars(m_SendResponse)
  /\ \A k \in 1 .. MaxDepth : SF_vars(CloseAt(k))

FairSpec == Init /\ [][Next]_vars /\ Fairness

\* ===================================================================
\*                        the claims, continued
\* ===================================================================

\* a fetch / a send that has issued its request is somewhere on the stack
FetchInProgress(stk) == \E f \in Frames(stk) : f.op = "fetch"
SendInProgress(stk) == \E f \in Frames(stk) : f.op = "send" /\ f.requests = 1

\* C13 (FairSpec) - Fetch life cycle: while a fetch is in progress the
\* refresh control is disabled and shows its loading label; every fetch
\* ends; and whenever none is in progress after the first one, the display
\* is in Ready or FetchFailed, the program is still running, and the refresh
\* control is enabled with its idle label, so another fetch can be triggered.
C13_FetchLifeCycle ==
  /\ [](Rpm =>
          /\ FetchInProgress(stack) =>
               ~refresh_button_enabled /\ refresh_button_text = "Loading..."
          /\ (Idle(stack) /\ timer_active) =>
               /\ patient_info \in {"patient", "no_data", "error"}
               /\ refresh_button_enabled /\ refresh_button_text = "Refresh")
  /\ [](Mono =>
          /\ FetchInProgress(m_stack) =>
               ~m_fetch_enabled /\ m_fetch_text = "Loading..."
          /\ m_main # "crashed"
          /\ (Idle(m_stack) /\ m_main = "exec") =>
               /\ m_header \in {"patient", "error"}
               /\ m_fetch_enabled /\ m_fetch_text = "Fetch Data")
  /\ FetchInProgress(stack) ~> Idle(stack)
  /\ FetchInProgress(m_stack) ~> Idle(m_stack)

\* the step in which a send that issued its POST returns
SendEnds(stk, stk2) ==
  /\ stk # <<>> /\ Top(stk).op = "send" /\ Top(stk).requests = 1
  /\ stk2 = Pop(stk)

\* C14 (FairSpec) - Send life cycle: while a send that passed the local
\* checks is in progress the send control is disabled and shows its sending
\* label; every such send ends, and it ends from its Sent, not-stored or
\* SendFailed dialog with the send control enabled and its idle label back.
C14_SendLifeCycle ==
  /\ [](Rpm => (SendInProgress(stack) =>
                  ~send_button_enabled /\ send_button_text = "Sending..."))
  /\ [](Mono => (SendInProgress(m_stack) =>
                   ~m_send_enabled /\ m_send_text = "Sending..."))
  /\ [][/\ SendEnds(stack, stack') =>
             /\ Top(stack).pc \in AfterResponse
             /\ send_button_enabled' /\ send_button_text' = "Send Advice"
        /\ SendEnds(m_stack, m_stack') =>
             /\ Top(m_stack).pc \in AfterResponse
             /\ m_send_enabled' /\ m_send_text' = "Send Advice"]_vars
  /\ SendInProgress(stack) ~> Idle(stack)
  /\ SendInProgress(m_stack) ~> Idle(m_stack)

\* C15 (SpecWide) - The status shown in a row is Low (LOW in RPMApp, Warning
\* in the single-file program) iff the spo2 of the reading it shows is below
\* the threshold, and Normal (NORMAL / OK) otherwise; a reading equal to the
\* threshold is Normal.
C15_RowStatus ==
  /\ Rpm => \A i \in 1 .. Len(rows) :
       LET spo2 == measurements[i].spo2
       IN /\ rows[i].spo2 = spo2
          /\ rows[i].status = "LOW" <=> spo2 < SPO2_THRESHOLD
          /\ rows[i].status = "NORMAL" <=> ~(spo2 < SPO2_THRESHOLD)
          /\ spo2 = SPO2_THRESHOLD => rows[i].status = "NORMAL"
  /\ Mono => \A i \in 1 .. Len(m_rows) :
       LET spo2 == m_rows[i].spo2
       IN /\ m_rows[i].status = "Warning" <=> spo2 < MONO_THRESHOLD
          /\ m_rows[i].status = "OK" <=> ~(spo2 < MONO_THRESHOLD)
          /\ spo2 = MONO_THRESHOLD => m_rows[i].status = "OK"

\* C15 witness: a table showing a reading at the threshold as NORMAL and a
\* reading one below it as LOW
C15_Witness ==
  /\ Rpm /\ Len(rows) = 2
  /\ rows[1].spo2 = SPO2_THRESHOLD /\ rows[1].status = "NORMAL"
  /\ rows[2].spo2 = SPO2_THRESHOLD - 1 /\ rows[2].status = "LOW"

\* C16 (SpecWide) - The per-reading status is monotonic: of two rows of the
\* table showing spo2 values a <= b, if the one showing b is Low then the one
\* showing a is Low.
C16_RowStatusMonotonic ==
  /\ Rpm => \A i, j \in 1 .. Len(rows) :
       (rows[i].spo2 <= rows[j].spo2 /\ rows[j].status = "LOW") =>
         rows[i].status = "LOW"
  /\ Mono => \A i, j \in 1 .. Len(m_rows) :
       (m_rows[i].spo2 <= m_rows[j].spo2 /\ m_rows[j].status = "Warning") =>
         m_rows[i].status = "Warning"

\* C16 witness: two rows, a < b, the one showing b is LOW (and so is a's)
C16_Witness ==
  /\ Rpm /\ Len(rows) = 2
  /\ rows[1].spo2 < rows[2].spo2 /\ rows[2].status = "LOW"

\* the verdict of the readings with spo2 values R under threshold T
VerdictOf(R, T) ==
  IF R = <<>> THEN "Unknown"
  ELSE IF \E i \in 1 .. Len(R) : R[i].spo2 < T THEN "Warning"
  ELSE "OK"

\* C17 (SpecWide) - Verdict evaluation is deterministic and idempotent: the
\* verdict and the enablement of the advice controls a successful fetch
\* leaves behind depend on the readings it evaluated alone, whatever the
\* state before, and those readings are the ones held afterwards; so a fetch
\* that returns the readings already held changes neither the verdict nor
\* the enablement.
C17_EvaluationIdempotent ==
  [][/\ (Rpm /\ FetchSucceeds(stack, stack')) =>
          /\ status' = VerdictOf(measurements', SPO2_THRESHOLD)
          /\ message_text_enabled' = (status' = "Warning")
          /\ send_button_enabled' = (status' = "Warning")
          /\ measurements' = measurements =>
               UNCHANGED <<status, message_text_enabled,
                           send_button_enabled>>
     /\ (Mono /\ FetchSucceeds(m_stack, m_stack')) =>
          /\ m_verdict' = VerdictOf(m_rows', MONO_THRESHOLD)
          /\ m_group_enabled' = (m_verdict' = "Warning")
          /\ m_rows' = m_rows =>
               UNCHANGED <<m_verdict, m_group_enabled>>]_vars

\* C17 witness: readings evaluated to Warning are held, the advice controls
\* are enabled, and the next fetch (a slot's, not the constructor's) is
\* waiting for its response
C17_Witness ==
  /\ Rpm /\ stack # <<>> /\ Top(stack).pc = "get" /\ Top(stack).trigger = "slot"
  /\ Len(measurements) = 2 /\ status = "Warning"
  /\ message_text_enabled /\ send_button_enabled

\* no operation is in progress and the last fetch to return was successful
\* (a failed one leaves the error text in patient_info)
AfterSuccessfulFetch ==
  Rpm /\ Idle(stack) /\ patient_info \in {"patient", "no_data"}

\* C18 (SpecWide) - After every successful fetch of RPMApp the verdict and the rows
\* agree: the verdict is Warning iff some displayed row is annotated LOW, and
\* OK iff there is a row and every row is annotated NORMAL.
C18_VerdictAgreesWithRows ==
  AfterSuccessfulFetch =>
    /\ status = "Warning" <=> \E i \in 1 .. Len(rows) : rows[i].status = "LOW"
    /\ status = "OK" <=>
         /\ rows # <<>>
         /\ \A i \in 1 .. Len(rows) : rows[i].status = "NORMAL"

\* C18 witness: a fetch returned a reading at the threshold and one below
\* it; one row is NORMAL, the other LOW, and the verdict is Warning
C18_Witness ==
  /\ AfterSuccessfulFetch /\ Len(rows) = 2
  /\ rows[1].status = "NORMAL" /\ rows[2].status = "LOW"
  /\ status = "Warning"

\* C19 - In RPMApp, whenever no operation is in progress, the stored verdict
\* is the verdict of the held readings: status is never stale.
C19_VerdictNeverStale ==
  (Rpm /\ Idle(stack)) => status = update_status(measurements).status

\* C20 - An advice POST goes to the patient whose readings are evaluated:
\* whenever a POST is on the wire for patient p, the verdict that enabled the
\* send was computed by a successful fetch for the same p.
C20_AdviceToEvaluatedPatient ==
  /\ (Rpm /\ wire.method = "POST") => wire.patient = evaluated_patient
  /\ (Mono /\ m_wire.method = "POST") => m_wire.patient = m_evaluated_patient

\* the step in which the error dialog of a failed fetch closes
FetchFailureCloses(stk, stk2) ==
  /\ stk # <<>> /\ Top(stk).op = "fetch" /\ Top(stk).pc = "error_dialog"
  /\ stk2 = Pop(stk)

\* C21 (SpecWide) - The error marking does not outlive the failure: a fetch
\* that completes successfully leaves the patient display with neither the
\* error text nor the error styling, a fetch that fails leaves it with both,
\* and nothing else changes the marking; so the marking is shown iff the
\* most recent fetch failed.
C21_ErrorMarkingReset ==
  [][/\ (Rpm /\ FetchSucceeds(stack, stack')) =>
          /\ patient_info' \in {"patient", "no_data"}
          /\ patient_info_style' = "normal"
     /\ (Rpm /\ FetchFailureCloses(stack, stack')) =>
          patient_info' = "error" /\ patient_info_style' = "error"
     /\ (Mono /\ FetchSucceeds(m_stack, m_stack')) =>
          m_header' = "patient" /\ m_status_label' \in VerdictLabels
     /\ (Mono /\ FetchFailureCloses(m_stack, m_stack')) =>
          m_header' = "error" /\ m_status_label' = "Status: Error"]_vars

\* C22 - In the single-file program, whenever no operation is in progress,
\* the advice group is enabled only if the status label shows Warning.
C22_GroupOnlyOnWarning ==
  (Mono /\ Idle(m_stack) /\ m_group_enabled) =>
    m_status_label = "Status: Warning"

\* ===================================================================
\*                  the two programs run side by side
\* ===================================================================
\* Both programs are started together and are given the same events: the
\* same timer ticks and clicks, the same typed text, and the same response
\* to each request (for a GET a transport failure or well-formed readings,
\* for a POST a transport failure or a JSON object).  The patient selection
\* is left alone.

Both_InitialFetch == InitialFetch /\ m_InitialFetch

Both_TimerFetch == TimerFetch /\ m_TimerFetch

Both_FetchClick == RefreshClick /\ m_FetchClick

Both_FetchResponse ==
  \E r \in WideGetOutcomes : FetchResponseOn({r}) /\ m_FetchResponseOn({r})

Both_FetchErrorClose == FetchErrorClose /\ m_FetchErrorClose

Both_EditText == EditText /\ m_EditText /\ message_text' = m_message_input'

Both_SendClick == SendClick /\ m_SendClick

Both_SendMissingClose == SendMissingClose /\ m_SendMissingClose

Both_SendResponse ==
  /\ SendResponse /\ m_SendResponse
  /\ Len(m_stack') = Len(m_stack)
  /\ Top(m_stack').response = Top(stack').response

Both_SendDialogClose == SendDialogClose /\ m_SendDialogClose

BothInit ==
  /\ app = "both"
  /\ RpmInit
  /\ MonoInit

BothNext ==
  \/ Both_InitialFetch
  \/ Both_TimerFetch
  \/ Both_FetchClick
  \/ Both_FetchResponse
  \/ Both_FetchErrorClose
  \/ Both_EditText
  \/ Both_SendClick
  \/ Both_SendMissingClose
  \/ Both_SendResponse
  \/ Both_SendDialogClose

SpecBoth == BothInit /\ [][BothNext]_vars

\* C23 (SpecBoth) - The two programs, given the same events and the same
\* responses, agree on the core policy: they reach the same verdict, they
\* have a request on the wire (a POST in particular) in the same situations,
\* to the same patient and with the same text, and whenever neither has an
\* operation in progress their advice controls are enabled alike (the text
\* field, and the send button, which in the single-file program also needs
\* its enclosing group enabled).
C23_VariantsEquivalent ==
  app = "both" =>
    /\ status = m_verdict
    /\ wire = m_wire
    /\ (Idle(stack) /\ Idle(m_stack)) =>
         /\ message_text_enabled = m_group_enabled
         /\ send_button_enabled = (m_group_enabled /\ m_send_enabled)

====
